---- MODULE Spec2Model ----
(***************************************************************************)
(* Model of Tools/SidTool/UwpSharedObjectPathTool.cpp: main() prompts on   *)
(* wcout, reads a container name from wcin, calls                          *)
(* DeriveAppContainerSidFromAppContainerName, ConvertSidToStringSidA and   *)
(* FreeSid without inspecting any return status, and prints "SID: <text>". *)
(* The host identity subsystem is a deterministic stub; the locals sid and *)
(* stringSid are declared without initialiser, so their first values and   *)
(* every use of an unset value are nondeterministic choices.               *)
(***************************************************************************)
EXTENDS Integers, Sequences, FiniteSets, TLC

\* ---------------------------------------------------------------- bounds
MaxLen == 2          \* longest text typed on standard input
MaxRuns == 2         \* program invocations in the repeated-run specification

\* ------------------------------------------------------------ input text
Alphabet == {"a", "!", " "}

RECURSIVE SeqsUpTo(_)
SeqsUpTo(n) ==
    IF n = 0 THEN {<<>>}
    ELSE LET S == SeqsUpTo(n - 1)
         IN  S \cup {Append(s, c) : s \in {t \in S : Len(t) = n - 1}, c \in Alphabet}

Inputs == SeqsUpTo(MaxLen)

IsSpace(c) == c = " "

RECURSIVE SkipWs(_)
SkipWs(s) == IF s # <<>> /\ IsSpace(Head(s)) THEN SkipWs(Tail(s)) ELSE s

RECURSIVE TakeToken(_)
TakeToken(s) ==
    IF s = <<>> \/ IsSpace(Head(s)) THEN <<>>
    ELSE <<Head(s)>> \o TakeToken(Tail(s))

\* wcin >> containerName: clears the string, skips leading whitespace, then
\* extracts characters up to the next whitespace or end of input.
ReadToken(s) == TakeToken(SkipWs(s))

\* ------------------------------------------------- host identity subsystem
NullSid == [kind |-> "null"]
GarbageSid == [kind |-> "garbage"]
NullStr == [kind |-> "null"]
GarbageStr == [kind |-> "garbage"]

CharCode(c) == IF c = "a" THEN 1 ELSE IF c = "!" THEN 2 ELSE 3

RECURSIVE NameHash(_)
NameHash(n) == IF n = <<>> THEN 0 ELSE 4 * NameHash(Tail(n)) + CharCode(Head(n))

\* The host rejects the empty name and names with disallowed characters.
HostAccepts(n) == n # <<>> /\ \A i \in 1..Len(n) : n[i] = "a"

\* App-container SIDs are S-1-15-2-<hash of the name>.
DeriveSid(n) == [kind |-> "sid", rev |-> 1, auth |-> 15, sub |-> <<2, NameHash(n)>>]

\* Canonical text of a SID: the prefix S, then revision, authority, sub-authorities.
SidToText(s) == [kind |-> "text", chars |-> <<"S", s.rev, s.auth>> \o s.sub]

Names == {ReadToken(i) : i \in Inputs}
ValidSids == {DeriveSid(n) : n \in {m \in Names : HostAccepts(m)}}

PromptText == "You can find SID for your UWP app in the Partner Center. If it is not yet published or you are going to use MSIX for deployment from website, FTP or shared folder, please enter your app container name. For UWP apps it is the same string as PFN (Package Family Name):\n\n"
Label == "SID: "
Newline == "\n"

\* ------------------------------------------------------------------ state
VARIABLES
    input,          \* text waiting on standard input
    containerName,  \* wstring containerName
    sid,            \* PSID sid (declared without initialiser)
    stringSid,      \* LPSTR stringSid (declared without initialiser)
    pc,             \* statement of main() to execute next
    out,            \* what has been written to standard output (wcout)
    err,            \* what has been written to the error stream
    wcoutBad,       \* wcout has badbit set; later insertions write nothing
    exitStatus,     \* <<>> while running, <<code>> once the process ended
    live,           \* identifiers the host has allocated and not yet released
    convFail,       \* identifiers the host cannot render as text (fixed)
    trace,          \* host calls and buffer reads of the current run, in order
    run,            \* number of the current invocation
    outcomes        \* per container name, the outcomes of earlier invocations

vars == <<input, containerName, sid, stringSid, pc, out, err, wcoutBad,
          exitStatus, live, convFail, trace, run, outcomes>>

Event(op, arg, ok) == [op |-> op, arg |-> arg, ok |-> ok]

\* An unset PSID / LPSTR local holds whatever the stack held.
UninitSid == {NullSid, GarbageSid}
UninitStr == {NullStr, GarbageStr}

Terminated == pc \in {"done", "crashed"}

Outcome == [status |-> exitStatus, out |-> out]

\* State at entry to main(): fresh locals, nothing written, no host call made.
FreshRun(in, s, t) ==
    /\ input' = in
    /\ containerName' = <<>>
    /\ sid' = s
    /\ stringSid' = t
    /\ pc' = "prompt"
    /\ out' = <<>>
    /\ err' = <<>>
    /\ wcoutBad' = FALSE
    /\ exitStatus' = <<>>
    /\ trace' = <<>>

Init ==
    /\ input \in Inputs
    /\ containerName = <<>>
    /\ sid \in UninitSid
    /\ stringSid \in UninitStr
    /\ pc = "prompt"
    /\ out = <<>>
    /\ err = <<>>
    /\ wcoutBad = FALSE
    /\ exitStatus = <<>>
    /\ live = {}
    /\ convFail \in SUBSET ValidSids
    /\ trace = <<>>
    /\ run = 1
    /\ outcomes = [n \in Names |-> {}]

\* Abnormal end of the process (access violation inside a call).
Crash ==
    /\ pc' = "crashed"
    /\ exitStatus' = <<-1073741819>>

\* wcout << L"You can find SID ...\n\n";
Prompt ==
    /\ pc = "prompt"
    /\ out' = Append(out, PromptText)
    /\ pc' = "read"
    /\ UNCHANGED <<input, containerName, sid, stringSid, err, wcoutBad,
                   exitStatus, live, convFail, trace, run, outcomes>>

\* wcin >> containerName;
ReadName ==
    /\ pc = "read"
    /\ containerName' = ReadToken(input)
    /\ pc' = "derive"
    /\ UNCHANGED <<input, sid, stringSid, out, err, wcoutBad, exitStatus,
                   live, convFail, trace, run, outcomes>>

\* Variant of Derive that calls the host a second time when the first call fails.
DeriveRetry ==
    /\ pc = "derive"
    /\ IF HostAccepts(containerName)
       THEN /\ sid' = DeriveSid(containerName)
            /\ live' = live \cup {DeriveSid(containerName)}
            /\ trace' = Append(trace, Event("Derive", containerName, TRUE))
            /\ pc' = "convert"
       ELSE /\ sid' \in {sid, NullSid}
            /\ live' = live
            /\ trace' = Append(trace, Event("Derive", containerName, FALSE))
            /\ pc' = IF trace = <<>> THEN "derive" ELSE "convert"
    /\ UNCHANGED <<input, containerName, stringSid, out, err, wcoutBad,
                   exitStatus, convFail, run, outcomes>>

\* DeriveAppContainerSidFromAppContainerName(containerName.c_str(), &sid);
\* the HRESULT is discarded.  On failure the host may leave sid untouched or
\* store a null pointer.
Derive ==
    /\ pc = "derive"
    /\ IF HostAccepts(containerName)
       THEN /\ sid' = DeriveSid(containerName)
            /\ live' = live \cup {DeriveSid(containerName)}
            /\ trace' = Append(trace, Event("Derive", containerName, TRUE))
       ELSE /\ sid' \in {sid, NullSid}
            /\ live' = live
            /\ trace' = Append(trace, Event("Derive", containerName, FALSE))
    /\ pc' = "convert"
    /\ UNCHANGED <<input, containerName, stringSid, out, err, wcoutBad,
                   exitStatus, convFail, run, outcomes>>

\* ConvertSidToStringSidA(sid, &stringSid); the BOOL is discarded.  A live
\* identifier is rendered unless the host cannot; a null one is refused; an
\* unset one is refused, faults, or is rendered from whatever it points to.
Convert ==
    /\ pc = "convert"
    /\ \/ /\ sid \in live /\ sid \notin convFail
          /\ stringSid' = SidToText(sid)
          /\ trace' = Append(trace, Event("Convert", sid, TRUE))
          /\ pc' = "free"
          /\ UNCHANGED exitStatus
       \/ /\ sid \in live /\ sid \in convFail
          /\ stringSid' \in {stringSid, NullStr}
          /\ trace' = Append(trace, Event("Convert", sid, FALSE))
          /\ pc' = "free"
          /\ UNCHANGED exitStatus
       \/ /\ sid \notin live
          /\ stringSid' \in {stringSid, NullStr}
          /\ trace' = Append(trace, Event("Convert", sid, FALSE))
          /\ pc' = "free"
          /\ UNCHANGED exitStatus
       \/ /\ sid = GarbageSid
          /\ trace' = Append(trace, Event("Convert", sid, FALSE))
          /\ Crash
          /\ UNCHANGED stringSid
       \/ /\ sid = GarbageSid
          /\ stringSid' = GarbageStr
          /\ trace' = Append(trace, Event("Convert", sid, TRUE))
          /\ pc' = "free"
          /\ UNCHANGED exitStatus
    /\ UNCHANGED <<input, containerName, sid, out, err, wcoutBad, live,
                   convFail, run, outcomes>>

\* Variant of FreeSidCall that lets go of the identifier only after the output,
\* i.e. the statement is skipped at this position.
FreeSidSkipped ==
    /\ pc = "free"
    /\ pc' = "label"
    /\ UNCHANGED <<input, containerName, sid, stringSid, out, err, wcoutBad,
                   exitStatus, live, convFail, trace, run, outcomes>>

\* FreeSid(sid);
FreeSidCall ==
    /\ pc = "free"
    /\ trace' = Append(trace, Event("FreeSid", sid, sid \in live))
    /\ \/ /\ sid \in live
          /\ live' = live \ {sid}
          /\ pc' = "label"
          /\ UNCHANGED exitStatus
       \/ /\ sid \notin live
          /\ live' = live
          /\ pc' = "label"
          /\ UNCHANGED exitStatus
       \/ /\ sid \notin live
          /\ live' = live
          /\ Crash
    /\ UNCHANGED <<input, containerName, sid, stringSid, out, err, wcoutBad,
                   convFail, run, outcomes>>

\* wcout << L"SID: ";
PrintLabel ==
    /\ pc = "label"
    /\ out' = Append(out, Label)
    /\ pc' = "text"
    /\ UNCHANGED <<input, containerName, sid, stringSid, err, wcoutBad,
                   exitStatus, live, convFail, trace, run, outcomes>>

\* Variant of PrintSid in which the wide stream has no narrow-string inserter
\* and formats the pointer value instead of the characters it points to.
PrintSidAsPointer ==
    /\ pc = "text"
    /\ trace' = Append(trace, Event("ReadStr", stringSid, stringSid.kind = "text"))
    /\ out' = Append(out, GarbageStr)
    /\ pc' = "newline"
    /\ UNCHANGED <<input, containerName, sid, stringSid, err, wcoutBad,
                   exitStatus, live, convFail, run, outcomes>>

\* wcout << stringSid;  (narrow string inserted into the wide stream)
PrintSid ==
    /\ pc = "text"
    /\ trace' = Append(trace, Event("ReadStr", stringSid, stringSid.kind = "text"))
    /\ \/ /\ stringSid.kind = "text"
          /\ out' = Append(out, stringSid)
          /\ pc' = "newline"
          /\ UNCHANGED <<wcoutBad, exitStatus>>
       \/ /\ stringSid = GarbageStr
          /\ out' = Append(out, GarbageStr)
          /\ pc' = "newline"
          /\ UNCHANGED <<wcoutBad, exitStatus>>
       \/ /\ stringSid = NullStr
          /\ wcoutBad' = TRUE
          /\ pc' = "newline"
          /\ UNCHANGED <<out, exitStatus>>
       \/ /\ stringSid.kind # "text"
          /\ Crash
          /\ UNCHANGED <<out, wcoutBad>>
    /\ UNCHANGED <<input, containerName, sid, stringSid, err, live, convFail,
                   run, outcomes>>

\* wcout << L"\n"; then main() falls off its end, which returns 0.
PrintNewline ==
    /\ pc = "newline"
    /\ out' = IF wcoutBad THEN out ELSE Append(out, Newline)
    /\ pc' = "done"
    /\ exitStatus' = <<0>>
    /\ UNCHANGED <<input, containerName, sid, stringSid, err, wcoutBad, live,
                   convFail, trace, run, outcomes>>

\* The tool is started again: a new process with fresh locals and streams.
\* The host keeps its mapping; identifiers of the ended process are reclaimed.
Restart ==
    /\ Terminated
    /\ run < MaxRuns
    /\ \E in \in Inputs, s \in UninitSid, t \in UninitStr : FreshRun(in, s, t)
    /\ live' = {}
    /\ run' = run + 1
    /\ outcomes' = [outcomes EXCEPT ![containerName] = @ \cup {Outcome}]
    /\ UNCHANGED convFail

Next ==
    \/ Prompt
    \/ ReadName
    \/ Derive
    \/ Convert
    \/ FreeSidCall
    \/ PrintLabel
    \/ PrintSid
    \/ PrintNewline

Spec == Init /\ [][Next]_vars

\* Each statement of main() returns, so the next one is eventually executed.
FairSpec == Spec /\ WF_vars(Next)

NextRepeated == Next \/ Restart

SpecRepeated == Init /\ [][NextRepeated]_vars

TypeOK ==
    /\ input \in Inputs
    /\ containerName \in Names
    /\ pc \in {"prompt", "read", "derive", "convert", "free", "label", "text",
               "newline", "done", "crashed"}
    /\ live \subseteq ValidSids
    /\ run \in 1..MaxRuns

\* ------------------------------------------------- observations on a run
Range(f) == {f[i] : i \in DOMAIN f}

Ops(op) == {i \in DOMAIN trace : trace[i].op = op}

Count(op) == Cardinality(Ops(op))

DeriveOk == \E i \in Ops("Derive") : trace[i].ok
DeriveFailed == \E i \in Ops("Derive") : ~trace[i].ok
ConvertOk == \E i \in Ops("Convert") : trace[i].ok
ConvertFailed == \E i \in Ops("Convert") : ~trace[i].ok

\* The text the host yields for the name that was read.
ExpectedText == SidToText(DeriveSid(containerName))

\* The input is a name the host accepts and whose identifier it can render.
SuccessPath ==
    /\ HostAccepts(ReadToken(input))
    /\ DeriveSid(ReadToken(input)) \notin convFail

OpRank(op) ==
    CASE op = "Derive" -> 1
      [] op = "Convert" -> 2
      [] op = "FreeSid" -> 3
      [] op = "ReadStr" -> 4

PcRank(p) ==
    CASE p = "prompt" -> 0
      [] p = "read" -> 1
      [] p = "derive" -> 2
      [] p = "convert" -> 3
      [] p = "free" -> 4
      [] p = "label" -> 5
      [] p = "text" -> 6
      [] p = "newline" -> 7
      [] p = "done" -> 8
      [] p = "crashed" -> 8

\* ------------------------------------------------------------------ claims

\* C1: on every path an identifier acquired by a successful derivation is
\* released exactly once before the program ends, and FreeSid is invoked at
\* most once and never on an identifier that was not acquired.
C1_ReleasedExactlyOnce ==
    /\ Count("FreeSid") <= 1
    /\ \A i \in Ops("FreeSid") : trace[i].ok
    /\ (Terminated /\ DeriveOk) => (Count("FreeSid") = 1 /\ live = {})

\* C2: when derivation fails, the run ends with a diagnostic on the error
\* stream and a non-zero exit status, never with exit status success.
C2_DeriveFailureReported ==
    (Terminated /\ DeriveFailed) => (err # <<>> /\ exitStatus # <<0>>)

\* C3: when derivation succeeds but conversion fails, the run ends in a
\* reported error with non-zero exit status, the identifier already released.
C3_ConversionFailureReported ==
    (Terminated /\ DeriveOk /\ ConvertFailed)
        => (err # <<>> /\ exitStatus # <<0>> /\ live = {})

\* C4: the SID line is written only when derivation and conversion both
\* succeeded, its text is the conversion of the identifier derived from the
\* name read, and on a failure of either step the text buffer is never read.
C4_SidLineOnlyOnSuccess ==
    /\ (Label \in Range(out)) => (DeriveOk /\ ConvertOk)
    /\ (Ops("ReadStr") # {}) => (DeriveOk /\ ConvertOk)
    /\ (pc = "done" /\ DeriveOk /\ ConvertOk) => (ExpectedText \in Range(out))

\* C5: for an empty container name the run fails: nothing is printed as a
\* textual identifier and the exit status is not success.
C5_EmptyNameRejected ==
    (Terminated /\ containerName = <<>>)
        => (Label \notin Range(out) /\ Len(out) <= 1 /\ exitStatus # <<0>>)

\* C6: with the host fixed, an invocation with a container name ends in the
\* same outcome (exit status and output) as every earlier invocation with
\* that name, whatever was run in between.
C6_Deterministic ==
    Terminated => \A o \in outcomes[containerName] : o = Outcome

\* C7 (as stated): on the success path standard output holds exactly the one
\* line label, text, terminator and nothing else, and the exit status is success.
C7_OnlyResultLineOnStdout ==
    (pc = "done" /\ DeriveOk /\ ConvertOk)
        => (out = <<Label, ExpectedText, Newline>> /\ exitStatus = <<0>>)

\* C7 (amended): on the success path the run reaches its end with exit status
\* success, and standard output then holds the prompt followed by exactly one
\* result line: label, textual identifier, line terminator.
C7_PromptThenResultLine ==
    /\ []((pc = "done" /\ DeriveOk /\ ConvertOk)
            => (out = <<PromptText, Label, ExpectedText, Newline>>
                /\ exitStatus = <<0>>))
    /\ (SuccessPath ~> (pc = "done" /\ DeriveOk /\ ConvertOk))

C7_Witness ==
    /\ pc = "done" /\ DeriveOk /\ ConvertOk
    /\ Len(out) = 4

\* C8: within a run the calls happen in the order derive, convert, release,
\* and output comes only after the release; the identifier handed to convert
\* and to release is the derived one, it is still allocated when converted,
\* and nothing refers to it after the release.
C8_LifecycleOrdered ==
    /\ \A i, j \in DOMAIN trace :
          i < j => OpRank(trace[i].op) < OpRank(trace[j].op)
    /\ (Label \in Range(out)) => Count("FreeSid") = 1
    /\ (Count("FreeSid") = 1) => Count("Convert") = 1
    /\ DeriveOk =>
          /\ \A i \in Ops("Convert") \cup Ops("FreeSid") :
                trace[i].arg = DeriveSid(containerName)
          /\ (Count("FreeSid") = 0) => DeriveSid(containerName) \in live
          /\ (Count("FreeSid") = 1) => DeriveSid(containerName) \notin live
          /\ \A i \in Ops("ReadStr") : trace[i].arg # DeriveSid(containerName)

C8_Witness ==
    /\ pc = "done" /\ DeriveOk /\ ConvertOk
    /\ Count("FreeSid") = 1
    /\ Ops("ReadStr") # {}

\* C9: conversion is invoked only on an identifier returned by a successful
\* derivation; if derivation fails it is not called at all.
C9_ConvertOnlyAfterDeriveOk ==
    (Ops("Convert") # {}) => DeriveOk

\* C10: every run ends, having called derivation at most once and conversion
\* at most once, and every step moves forward: no loop, no retry, no waiting.
C10_TerminatesWithoutRetry ==
    /\ [](Count("Derive") <= 1 /\ Count("Convert") <= 1)
    /\ [][PcRank(pc') > PcRank(pc)]_vars
    /\ <>Terminated

C10_Witness ==
    /\ Terminated
    /\ Count("Derive") = 1
    /\ Count("Convert") = 1

====
